---------------------------- MODULE Spec2Model ----------------------------
(***************************************************************************)
(* A model of mainUIexe2.py: the SRT block parser (parse_srt), the         *)
(* timestamp codec (time_to_ms), the two-pointer aligner (align_subtitles) *)
(* and the command that chains them (App.run).                             *)
(*                                                                         *)
(* Python values are represented as follows.                               *)
(*   - a timestamp string ("0:00:59,500") is the sequence of its           *)
(*     characters, so that time_to_ms really splits and converts it;       *)
(*   - a subtitle text is a TLA+ string, '' is "";                         *)
(*   - an entry (start, text) is the pair <<start, text>>, a track a       *)
(*     sequence of entries, a row the triple <<timecode, ko, ja>>;         *)
(*   - list indices are 0-based as in the source: entries[p] is written    *)
(*     At(entries, p);                                                     *)
(*   - None is the distinguished value None below.                         *)
(* Every function has its own program counter: align_pc, parse_pc, run_pc. *)
(***************************************************************************)
EXTENDS Integers, Sequences, FiniteSets, TLC

VARIABLES
    \* ---- the environment of one run
    ko_file, ja_file, output_file,  \* the three Entry widgets' contents
    fs,                             \* path -> text of the file, or Unreadable
    fonts,                          \* which TTF files can be registered
    messages,                       \* the message boxes shown, in order
    pdf,                            \* the document written by create_pdf
    progress,                       \* self.progress["value"]
    ko_font_name,                   \* register_fonts()'s result
    run_pc,
    \* ---- parse_srt's frame
    file_path, content, blocks, blk, entries, parse_ret, parse_pc,
    \* ---- align_subtitles' frame (run's ko_entries / ja_entries are its arguments)
    ko_entries, ja_entries, threshold, ko_ptr, ja_ptr, aligned, align_pc

envVars   == <<ko_file, ja_file, output_file, fs, fonts>>
runVars   == <<messages, pdf, progress, ko_font_name, run_pc>>
parseVars == <<file_path, content, blocks, blk, entries, parse_ret, parse_pc>>
alignVars == <<ko_entries, ja_entries, threshold, ko_ptr, ja_ptr, aligned, align_pc>>
vars      == <<envVars, runVars, parseVars, alignVars>>

\* Python's None (a value no list of entries, string or number equals).
None == << <<"None">> >>

\* None where a font name is expected (a font name is a string).
NoFont == "None"

\* seq[p] with Python's 0-based index.
At(seq, p) == seq[p + 1]

-----------------------------------------------------------------------------
(* Bounds of the model.                                                    *)

MaxKoLen == 3
MaxJaLen == 2
MaxBlocks == 3
MaxGap == 2
MaxRunBlocks == 2

\* align_subtitles' default threshold.
DefaultThreshold == 500

-----------------------------------------------------------------------------
(* time_to_ms                                                              *)

DigitVal(c) ==
    CASE c = "0" -> 0 [] c = "1" -> 1 [] c = "2" -> 2 [] c = "3" -> 3
      [] c = "4" -> 4 [] c = "5" -> 5 [] c = "6" -> 6 [] c = "7" -> 7
      [] c = "8" -> 8 [] c = "9" -> 9

\* The value of the first n characters of the digit string s.
RECURSIVE IntPrefix(_, _)
IntPrefix(s, n) ==
    IF n = 0 THEN 0 ELSE 10 * IntPrefix(s, n - 1) + DigitVal(s[n])

\* int(str) for a string of decimal digits (str is evaluated once, then read).
int(str) == [s \in {str} |-> IntPrefix(s, Len(s))][str]

\* The pieces of s between the occurrences of sep, one more piece than there
\* are occurrences.
Pieces(s, sep) ==
    LET P == {i \in 1..Len(s) : s[i] = sep}
        n == Cardinality(P)
        pos(k) == CHOOSE i \in P : Cardinality({j \in P : j < i}) = k - 1
        first(k) == IF k = 1 THEN 1 ELSE pos(k - 1) + 1
        last(k) == IF k = n + 1 THEN Len(s) ELSE pos(k) - 1
    IN  [k \in 1..(n + 1) |-> SubSeq(s, first(k), last(k))]

\* str.split(sep) for a one-character separator (str is evaluated once).
Split(str, sep) == [s \in {str} |-> Pieces(s, sep)][str]

time_to_ms(time_str) ==
    LET hms == Split(time_str, ":")      \* h, m, s = time_str.split(':')
        sms == Split(hms[3], ",")        \* s, ms = s.split(',')
    IN  int(hms[1]) * 3600000 + int(hms[2]) * 60000 + int(sms[1]) * 1000 + int(sms[2])

Abs(n) == IF n < 0 THEN -n ELSE n

-----------------------------------------------------------------------------
(* parse_srt                                                               *)
(*                                                                         *)
(* The text of a file is a sequence of items: each is the newline NL or a  *)
(* whole non-empty line (no two lines are adjacent without a newline). A   *)
(* line records its text s and, when timecode_pattern matches at its       *)
(* start, the groups of the match: hms (group 1) and frac (group 2), as    *)
(* character sequences.                                                    *)

NL == [kind |-> "nl", s |-> "\n", hms |-> <<>>, frac |-> <<>>]

\* What open() or read() raising leaves of a file: no text.
Unreadable == <<[kind |-> "unreadable", s |-> "", hms |-> <<>>, frac |-> <<>>]>>

\* A message box: messagebox.showerror / messagebox.showinfo.
ShowError(text) == [box |-> "error", text |-> text]
ShowInfo(text) == [box |-> "info", text |-> text]

\* text.strip(): the leading and trailing whitespace removed (the lines of the
\* model neither start nor end with whitespace, so the newlines at both ends).
Strip(text) ==
    LET keep == {i \in 1..Len(text) : text[i] # NL}
    IN  IF keep = {} THEN <<>>
        ELSE SubSeq(text, CHOOSE i \in keep : \A j \in keep : i <= j,
                          CHOOSE i \in keep : \A j \in keep : i >= j)

\* text.split('\n\n'): cut at every '\n\n', found from the left, not overlapping.
RECURSIVE SplitBlank(_)
SplitBlank(text) ==
    LET at == {i \in 1..(Len(text) - 1) : text[i] = NL /\ text[i + 1] = NL}
    IN  IF at = {} THEN <<text>>
        ELSE LET i == CHOOSE k \in at : \A j \in at : k <= j
             IN  <<SubSeq(text, 1, i - 1)>> \o SplitBlank(SubSeq(text, i + 2, Len(text)))

\* block.split('\n'): the lines of a block, each <<>> (the empty line) or <<line>>.
BlockLines(block) == Split(block, NL)

\* timecode_pattern.match(line)
TimeMatch(line) == line # <<>> /\ line[1].kind = "timing"

\* if len(lines) >= 3: ... if time_match:
WellFormed(lines) == Len(lines) >= 3 /\ TimeMatch(lines[2])

\* frac.ljust(3, '0')[:3]
Millis(frac) == SubSeq(frac \o <<"0", "0", "0">>, 1, 3)

\* f"{group(1)},{group(2).ljust(3,'0')[:3]}"
StartOf(line) == line[1].hms \o <<",">> \o Millis(line[1].frac)

LineStr(line) == IF line = <<>> THEN "" ELSE line[1].s

\* ' '.join(lines[from:]) (a line holds no '\n', so the replace changes nothing)
RECURSIVE Join(_, _)
Join(lines, from) ==
    IF from > Len(lines) THEN ""
    ELSE IF from = Len(lines) THEN LineStr(lines[from])
    ELSE LineStr(lines[from]) \o " " \o Join(lines, from + 1)

\* (start, text) of a well-formed block
EntryOf(lines) == <<StartOf(lines[2]), Join(lines, 3)>>

\* The call: the locals of a fresh frame.
ParseEnter(path) ==
    /\ file_path' = path
    /\ entries' = <<>>
    /\ content' = <<>>
    /\ blocks' = <<>>
    /\ blk' = 0
    /\ parse_ret' = None
    /\ parse_pc' = "open"

\* open() or read() raises: the except clause shows the error and returns None.
ParseOpenFail ==
    /\ parse_pc = "open"
    /\ fs[file_path] = Unreadable
    /\ messages' = Append(messages, ShowError("srt"))
    /\ parse_ret' = None
    /\ parse_pc' = "return"
    /\ UNCHANGED <<file_path, content, blocks, blk, entries>>
    /\ UNCHANGED <<envVars, pdf, progress, ko_font_name, run_pc, alignVars>>

\* content = f.read().strip(); blocks = content.split('\n\n')
ParseRead ==
    /\ parse_pc = "open"
    /\ fs[file_path] # Unreadable
    /\ content' = Strip(fs[file_path])
    /\ blocks' = SplitBlank(content')
    /\ blk' = 0
    /\ parse_pc' = "loop"
    /\ UNCHANGED <<file_path, entries, parse_ret>>
    /\ UNCHANGED <<envVars, runVars, alignVars>>

\* A block of at least 3 lines whose second line matches: one more entry.
ParseBlockEntry ==
    /\ parse_pc = "loop"
    /\ blk < Len(blocks)
    /\ WellFormed(BlockLines(At(blocks, blk)))
    /\ entries' = Append(entries, EntryOf(BlockLines(At(blocks, blk))))
    /\ blk' = blk + 1
    /\ UNCHANGED <<file_path, content, blocks, parse_ret, parse_pc>>
    /\ UNCHANGED <<envVars, runVars, alignVars>>

\* A malformed block ending the parse with an error.
ParseBlockSkip_Abort ==
    /\ parse_pc = "loop"
    /\ blk < Len(blocks)
    /\ ~WellFormed(BlockLines(At(blocks, blk)))
    /\ messages' = Append(messages, ShowError("srt"))
    /\ parse_ret' = None
    /\ parse_pc' = "return"
    /\ UNCHANGED <<file_path, content, blocks, blk, entries>>
    /\ UNCHANGED <<envVars, pdf, progress, ko_font_name, run_pc, alignVars>>

\* Any other block: nothing is appended, the loop goes on.
ParseBlockSkip ==
    /\ parse_pc = "loop"
    /\ blk < Len(blocks)
    /\ ~WellFormed(BlockLines(At(blocks, blk)))
    /\ blk' = blk + 1
    /\ UNCHANGED <<file_path, content, blocks, entries, parse_ret, parse_pc>>
    /\ UNCHANGED <<envVars, runVars, alignVars>>

\* return entries
ParseReturn ==
    /\ parse_pc = "loop"
    /\ ~(blk < Len(blocks))
    /\ parse_ret' = entries
    /\ parse_pc' = "return"
    /\ UNCHANGED <<file_path, content, blocks, blk, entries>>
    /\ UNCHANGED <<envVars, runVars, alignVars>>

NextParse ==
    \/ ParseOpenFail
    \/ ParseRead
    \/ ParseBlockEntry
    \/ ParseBlockSkip
    \/ ParseReturn

-----------------------------------------------------------------------------
(* align_subtitles                                                         *)

\* abs(ko_time - ja_time) < threshold: the boundary excluded.
WithinThreshold_Strict(ko_time, ja_time) == Abs(ko_time - ja_time) < threshold

\* The test of the first branch.
WithinThreshold(ko_time, ja_time) == Abs(ko_time - ja_time) <= threshold

\* The merged row with the ja text lost.
MergedRow_DropJa(ko, ja) == <<ko[1], ko[2], "">>

\* The merged row stamped with the ja entry's time.
MergedRow_JaTime(ko, ja) == <<ja[1], ko[2], ja[2]>>

\* (ko_entries[ko_ptr][0], ko_entries[ko_ptr][1], ja_entries[ja_ptr][1])
MergedRow(ko, ja) == <<ko[1], ko[2], ja[2]>>

\* (ko_entries[ko_ptr][0], ko_entries[ko_ptr][1], '')
SoloKoRow(ko) == <<ko[1], ko[2], "">>

\* The ja text put in the ko column.
SoloJaRow_Swapped(ja) == <<ja[1], ja[2], "">>

\* (ja_entries[ja_ptr][0], '', ja_entries[ja_ptr][1])
SoloJaRow(ja) == <<ja[1], "", ja[2]>>

\* The condition of the shared loop.
SharedCond == ko_ptr < Len(ko_entries) /\ ja_ptr < Len(ja_entries)

ko_time == time_to_ms(At(ko_entries, ko_ptr)[1])
ja_time == time_to_ms(At(ja_entries, ja_ptr)[1])

\* The call: the locals of a fresh frame.
AlignEnter(ko, ja, th) ==
    /\ ko_entries' = ko
    /\ ja_entries' = ja
    /\ threshold' = th
    /\ aligned' = <<>>
    /\ ko_ptr' = 0
    /\ ja_ptr' = 0
    /\ align_pc' = "shared"

\* if abs(ko_time - ja_time) <= threshold: one row of both, both cursors advance
AlignMerge ==
    /\ align_pc = "shared"
    /\ SharedCond
    /\ WithinThreshold(ko_time, ja_time)
    /\ aligned' = Append(aligned, MergedRow(At(ko_entries, ko_ptr), At(ja_entries, ja_ptr)))
    /\ ko_ptr' = ko_ptr + 1
    /\ ja_ptr' = ja_ptr + 1
    /\ UNCHANGED <<ko_entries, ja_entries, threshold, align_pc>>
    /\ UNCHANGED <<envVars, runVars, parseVars>>

\* elif ko_time < ja_time: the ko entry alone
AlignSoloKo ==
    /\ align_pc = "shared"
    /\ SharedCond
    /\ ~WithinThreshold(ko_time, ja_time)
    /\ ko_time < ja_time
    /\ aligned' = Append(aligned, SoloKoRow(At(ko_entries, ko_ptr)))
    /\ ko_ptr' = ko_ptr + 1
    /\ UNCHANGED <<ko_entries, ja_entries, threshold, ja_ptr, align_pc>>
    /\ UNCHANGED <<envVars, runVars, parseVars>>

\* The else branch advancing the wrong cursor.
AlignSoloJa_WrongCursor ==
    /\ align_pc = "shared"
    /\ SharedCond
    /\ ~WithinThreshold(ko_time, ja_time)
    /\ ~(ko_time < ja_time)
    /\ aligned' = Append(aligned, SoloJaRow(At(ja_entries, ja_ptr)))
    /\ ko_ptr' = ko_ptr + 1
    /\ UNCHANGED <<ko_entries, ja_entries, threshold, ja_ptr, align_pc>>
    /\ UNCHANGED <<envVars, runVars, parseVars>>

\* else: the ja entry alone
AlignSoloJa ==
    /\ align_pc = "shared"
    /\ SharedCond
    /\ ~WithinThreshold(ko_time, ja_time)
    /\ ~(ko_time < ja_time)
    /\ aligned' = Append(aligned, SoloJaRow(At(ja_entries, ja_ptr)))
    /\ ja_ptr' = ja_ptr + 1
    /\ UNCHANGED <<ko_entries, ja_entries, threshold, ko_ptr, align_pc>>
    /\ UNCHANGED <<envVars, runVars, parseVars>>

\* The shared loop's condition is false: on to the first drain loop.
AlignSharedExit ==
    /\ align_pc = "shared"
    /\ ~SharedCond
    /\ align_pc' = "drain_ko"
    /\ UNCHANGED <<ko_entries, ja_entries, threshold, ko_ptr, ja_ptr, aligned>>
    /\ UNCHANGED <<envVars, runVars, parseVars>>

\* while ko_ptr < len(ko_entries)
AlignDrainKo ==
    /\ align_pc = "drain_ko"
    /\ ko_ptr < Len(ko_entries)
    /\ aligned' = Append(aligned, SoloKoRow(At(ko_entries, ko_ptr)))
    /\ ko_ptr' = ko_ptr + 1
    /\ UNCHANGED <<ko_entries, ja_entries, threshold, ja_ptr, align_pc>>
    /\ UNCHANGED <<envVars, runVars, parseVars>>

AlignDrainKoExit ==
    /\ align_pc = "drain_ko"
    /\ ~(ko_ptr < Len(ko_entries))
    /\ align_pc' = "drain_ja"
    /\ UNCHANGED <<ko_entries, ja_entries, threshold, ko_ptr, ja_ptr, aligned>>
    /\ UNCHANGED <<envVars, runVars, parseVars>>

\* while ja_ptr < len(ja_entries)
AlignDrainJa ==
    /\ align_pc = "drain_ja"
    /\ ja_ptr < Len(ja_entries)
    /\ aligned' = Append(aligned, SoloJaRow(At(ja_entries, ja_ptr)))
    /\ ja_ptr' = ja_ptr + 1
    /\ UNCHANGED <<ko_entries, ja_entries, threshold, ko_ptr, align_pc>>
    /\ UNCHANGED <<envVars, runVars, parseVars>>

\* return aligned
AlignReturn ==
    /\ align_pc = "drain_ja"
    /\ ~(ja_ptr < Len(ja_entries))
    /\ align_pc' = "return"
    /\ UNCHANGED <<ko_entries, ja_entries, threshold, ko_ptr, ja_ptr, aligned>>
    /\ UNCHANGED <<envVars, runVars, parseVars>>

NextAlign ==
    \/ AlignMerge
    \/ AlignSoloKo
    \/ AlignSoloJa
    \/ AlignSharedExit
    \/ AlignDrainKo
    \/ AlignDrainKoExit
    \/ AlignDrainJa
    \/ AlignReturn

-----------------------------------------------------------------------------
(* The inputs of align_subtitles taken alone.                              *)

T59500 == <<"0", ":", "0", "0", ":", "5", "9", ",", "5", "0", "0">>
T60000 == <<"0", ":", "0", "1", ":", "0", "0", ",", "0", "0", "0">>
T60001 == <<"0", ":", "0", "1", ":", "0", "0", ",", "0", "0", "1">>

\* Start times 500 ms, 501 ms and 1 ms apart.
Times == {T59500, T60000, T60001}

\* No merge at all, merge on equal times only, the default.
Thresholds == {-1, 0, DefaultThreshold}

\* Texts that name their entry: the i-th of a track.
KoText(i) == <<"k1", "k2", "k3", "k4", "k5", "k6">>[i]
JaText(i) == <<"j1", "j2", "j3", "j4", "j5", "j6">>[i]

\* Every track of at most n entries, sorted or not.
KoTracks(n) ==
    UNION {{[i \in 1..k |-> <<ts[i], KoText(i)>>] : ts \in [1..k -> Times]} : k \in 0..n}
JaTracks(n) ==
    UNION {{[i \in 1..k |-> <<ts[i], JaText(i)>>] : ts \in [1..k -> Times]} : k \in 0..n}

\* No run of the command and no parse in progress.
IdleEnv ==
    /\ ko_file = "" /\ ja_file = "" /\ output_file = ""
    /\ fs = <<>>
    /\ fonts = "ok"
IdleRun ==
    /\ messages = <<>>
    /\ pdf = None
    /\ progress = 0
    /\ ko_font_name = NoFont
    /\ run_pc = "none"
IdleParse ==
    /\ file_path = ""
    /\ content = <<>>
    /\ blocks = <<>>
    /\ blk = 0
    /\ entries = <<>>
    /\ parse_ret = None
    /\ parse_pc = "none"

InitAlign ==
    /\ IdleEnv /\ IdleRun /\ IdleParse
    /\ ko_entries \in KoTracks(MaxKoLen)
    /\ ja_entries \in JaTracks(MaxJaLen)
    /\ threshold \in Thresholds
    /\ aligned = <<>>
    /\ ko_ptr = 0
    /\ ja_ptr = 0
    /\ align_pc = "shared"

SpecAlign == InitAlign /\ [][NextAlign]_vars

-----------------------------------------------------------------------------
(* The files parse_srt is given.                                           *)

Line(kind, str, hms, frac) == [kind |-> kind, s |-> str, hms |-> hms, frac |-> frac]

Index == Line("index", "1", <<>>, <<>>)
TextX == Line("text", "x", <<>>, <<>>)
TextY == Line("text", "y", <<>>, <<>>)
\* Starts at 59.5 s, written with a comma; at 60.5 s, written with a period
\* and one digit of fraction.
TimingA == Line("timing", "0:00:59,500 --> 0:01:01,000",
                <<"0", ":", "0", "0", ":", "5", "9">>, <<"5", "0", "0">>)
TimingB == Line("timing", "0:01:00.5 --> 0:01:02.0",
                <<"0", ":", "0", "1", ":", "0", "0">>, <<"5">>)

\* Two well-formed blocks (one and two text lines), a block of two lines, a
\* block of three lines without a timing line.
GoodBlocks == {<<Index, TimingA, TextX>>, <<Index, TimingB, TextX, TextY>>}
BadBlocks == {<<Index, TimingA>>, <<Index, TextX, TextY>>}
BlockShapes == GoodBlocks \cup BadBlocks

\* The lines of a block, a newline after each.
RECURSIVE BlockText(_)
BlockText(b) == IF b = <<>> THEN <<>> ELSE <<Head(b), NL>> \o BlockText(Tail(b))

\* n empty lines.
RECURSIVE Blank(_)
Blank(n) == IF n = 0 THEN <<>> ELSE <<NL>> \o Blank(n - 1)

\* The file of the blocks bs, gaps[i] empty lines between block i and the next.
RECURSIVE FileText(_, _)
FileText(bs, gaps) ==
    IF bs = <<>> THEN <<>>
    ELSE IF Len(bs) = 1 THEN BlockText(bs[1])
    ELSE BlockText(bs[1]) \o Blank(gaps[1]) \o FileText(Tail(bs), Tail(gaps))

\* Every file of at most n blocks with at most g empty lines between two.
Files(n, g) ==
    UNION {{FileText(bs, gaps) : bs \in [1..k -> BlockShapes],
                                 gaps \in [1..(k - 1) -> 1..g]} : k \in 0..n}

IdleAlign ==
    /\ ko_entries = None
    /\ ja_entries = None
    /\ threshold = DefaultThreshold
    /\ aligned = <<>>
    /\ ko_ptr = 0
    /\ ja_ptr = 0
    /\ align_pc = "none"

\* parse_srt("ko.srt") on any file, readable or not.
InitParse ==
    /\ ko_file = "ko.srt" /\ ja_file = "" /\ output_file = ""
    /\ fs \in [{"ko.srt"} -> Files(MaxBlocks, MaxGap) \cup {Unreadable}]
    /\ fonts = "ok"
    /\ IdleRun /\ IdleAlign
    /\ file_path = "ko.srt"
    /\ content = <<>>
    /\ blocks = <<>>
    /\ blk = 0
    /\ entries = <<>>
    /\ parse_ret = None
    /\ parse_pc = "open"

SpecParse == InitParse /\ [][NextParse]_vars

-----------------------------------------------------------------------------
(* App.run                                                                 *)

\* not x, for a list or None
Falsy(x) == x = None \/ x = <<>>

\* if not ko_file or not ja_file or not output_file: showerror; return
RunMissingField ==
    /\ run_pc = "start"
    /\ ko_file = "" \/ ja_file = "" \/ output_file = ""
    /\ messages' = Append(messages, ShowError("select all files"))
    /\ run_pc' = "done"
    /\ UNCHANGED <<envVars, pdf, progress, ko_font_name, parseVars, alignVars>>

\* register_fonts() shows its error and returns None: run returns.
RunFontsFail ==
    /\ run_pc = "start"
    /\ ~(ko_file = "" \/ ja_file = "" \/ output_file = "")
    /\ fonts # "ok"
    /\ messages' = Append(messages, ShowError(IF fonts = "no_ja" THEN "ja font" ELSE "ko font"))
    /\ ko_font_name' = NoFont
    /\ run_pc' = "done"
    /\ UNCHANGED <<envVars, pdf, progress, parseVars, alignVars>>

\* The fonts are registered; progress 20; ko_entries = parse_srt(ko_file) is called.
RunParseKo ==
    /\ run_pc = "start"
    /\ ~(ko_file = "" \/ ja_file = "" \/ output_file = "")
    /\ fonts = "ok"
    /\ ko_font_name' = "NanumGothic"
    /\ progress' = 20
    /\ ParseEnter(ko_file)
    /\ run_pc' = "parse_ko"
    /\ UNCHANGED <<envVars, messages, pdf, alignVars>>

\* parse_srt(ko_file) has returned; ja_entries = parse_srt(ja_file) is called.
RunParseJa ==
    /\ run_pc = "parse_ko"
    /\ parse_pc = "return"
    /\ ko_entries' = parse_ret
    /\ ParseEnter(ja_file)
    /\ run_pc' = "parse_ja"
    /\ UNCHANGED <<envVars, messages, pdf, progress, ko_font_name>>
    /\ UNCHANGED <<ja_entries, threshold, ko_ptr, ja_ptr, aligned, align_pc>>

\* parse_srt(ja_file) has returned.
RunParsed ==
    /\ run_pc = "parse_ja"
    /\ parse_pc = "return"
    /\ ja_entries' = parse_ret
    /\ parse_pc' = "none"
    /\ run_pc' = "check"
    /\ UNCHANGED <<envVars, messages, pdf, progress, ko_font_name>>
    /\ UNCHANGED <<file_path, content, blocks, blk, entries, parse_ret>>
    /\ UNCHANGED <<ko_entries, threshold, ko_ptr, ja_ptr, aligned, align_pc>>

\* if not ko_entries or not ja_entries: return
RunNoEntries ==
    /\ run_pc = "check"
    /\ Falsy(ko_entries) \/ Falsy(ja_entries)
    /\ run_pc' = "done"
    /\ UNCHANGED <<envVars, messages, pdf, progress, ko_font_name, parseVars, alignVars>>

\* progress 50; aligned = align_subtitles(ko_entries, ja_entries) is called.
RunAlign ==
    /\ run_pc = "check"
    /\ ~(Falsy(ko_entries) \/ Falsy(ja_entries))
    /\ progress' = 50
    /\ AlignEnter(ko_entries, ja_entries, DefaultThreshold)
    /\ run_pc' = "align"
    /\ UNCHANGED <<envVars, messages, pdf, ko_font_name, parseVars>>

\* align_subtitles has returned: progress 80, create_pdf writes one table row
\* per aligned row (the texts of the model hold no markup to remove),
\* progress 100, the completion box.
RunCreatePdf ==
    /\ run_pc = "align"
    /\ align_pc = "return"
    /\ pdf' = aligned
    /\ progress' = 100
    /\ messages' = Append(messages, ShowInfo("done"))
    /\ align_pc' = "none"
    /\ run_pc' = "done"
    /\ UNCHANGED <<envVars, ko_font_name, parseVars>>
    /\ UNCHANGED <<ko_entries, ja_entries, threshold, ko_ptr, ja_ptr, aligned>>

NextRun ==
    \/ RunMissingField
    \/ RunFontsFail
    \/ RunParseKo
    \/ RunParseJa
    \/ RunParsed
    \/ RunNoEntries
    \/ RunAlign
    \/ RunCreatePdf
    \/ NextParse
    \/ NextAlign

\* A click on the run button: any choice of the three paths, any two files,
\* any font installation.
InitRun ==
    /\ ko_file \in {"", "ko.srt"}
    /\ ja_file \in {"", "ja.srt"}
    /\ output_file \in {"", "out.pdf"}
    /\ fs \in [{"ko.srt", "ja.srt"} -> Files(MaxRunBlocks, 1) \cup {Unreadable}]
    /\ fonts \in {"ok", "no_ja", "no_ko"}
    /\ messages = <<>>
    /\ pdf = None
    /\ progress = 0
    /\ ko_font_name = NoFont
    /\ run_pc = "start"
    /\ IdleParse /\ IdleAlign

SpecRun == InitRun /\ [][NextRun]_vars

-----------------------------------------------------------------------------
(* Properties of align_subtitles (under SpecAlign).                        *)

Rows == 1..Len(aligned)
IsMerged(row) == row[2] # "" /\ row[3] # ""
RowMs(r) == time_to_ms(aligned[r][1])

\* The rows in which the i-th ko entry's text stands, likewise the j-th ja entry's.
KoRowsOf(i) == {r \in Rows : aligned[r][2] = ko_entries[i][2]}
JaRowsOf(j) == {r \in Rows : aligned[r][3] = ja_entries[j][2]}

\* 1 for a solo row, 2 for a merged row.
Contribution(row) == (IF row[2] # "" THEN 1 ELSE 0) + (IF row[3] # "" THEN 1 ELSE 0)

RECURSIVE Contributions(_)
Contributions(rows) ==
    IF rows = <<>> THEN 0 ELSE Contribution(Head(rows)) + Contributions(Tail(rows))

NonDecreasing(track) ==
    \A i \in 1..(Len(track) - 1) : time_to_ms(track[i][1]) <= time_to_ms(track[i + 1][1])

\* C1: the returned rows partition the input entries: every ko entry and every
\* ja entry stands in exactly one row, every row holds one or two entries and
\* nothing else, and the contributions (1 per solo row, 2 per merged row) add up
\* to |A| + |B|.
C1_Completeness ==
    align_pc = "return" =>
        /\ \A i \in 1..Len(ko_entries) : Cardinality(KoRowsOf(i)) = 1
        /\ \A j \in 1..Len(ja_entries) : Cardinality(JaRowsOf(j)) = 1
        /\ \A r \in Rows :
              /\ Contribution(aligned[r]) >= 1
              /\ aligned[r][2] # "" => \E i \in 1..Len(ko_entries) : r \in KoRowsOf(i)
              /\ aligned[r][3] # "" => \E j \in 1..Len(ja_entries) : r \in JaRowsOf(j)
        /\ Contributions(aligned) = Len(ko_entries) + Len(ja_entries)

\* A return with merged rows and solo rows of both tracks.
C1_Witness ==
    /\ align_pc = "return"
    /\ Len(ko_entries) = 3 /\ Len(ja_entries) = 2
    /\ \E r \in Rows : IsMerged(aligned[r])
    /\ \E r \in Rows : aligned[r][3] = ""
    /\ \E r \in Rows : aligned[r][2] = ""

\* C2: when both tracks are non-decreasing in time and the threshold is >= 0,
\* the returned rows' timestamps are non-decreasing.
C2_OrderPreserved ==
    (/\ align_pc = "return"
     /\ threshold >= 0
     /\ NonDecreasing(ko_entries)
     /\ NonDecreasing(ja_entries))
    => \A r \in 1..(Len(aligned) - 1) : RowMs(r) <= RowMs(r + 1)

\* C3, the step: with both cursors in range, the two entries merge into one row
\* and both cursors advance exactly when |a - b| <= threshold; otherwise the
\* entry of smaller time is emitted alone and only its cursor advances.
C3_Step ==
    (align_pc = "shared" /\ SharedCond) =>
        LET ko == At(ko_entries, ko_ptr)
            ja == At(ja_entries, ja_ptr)
            a  == time_to_ms(ko[1])
            b  == time_to_ms(ja[1])
        IN  IF Abs(a - b) <= threshold
            THEN /\ aligned' = Append(aligned, <<ko[1], ko[2], ja[2]>>)
                 /\ ko_ptr' = ko_ptr + 1 /\ ja_ptr' = ja_ptr + 1
            ELSE IF a < b
            THEN /\ aligned' = Append(aligned, <<ko[1], ko[2], "">>)
                 /\ ko_ptr' = ko_ptr + 1 /\ ja_ptr' = ja_ptr
            ELSE /\ aligned' = Append(aligned, <<ja[1], "", ja[2]>>)
                 /\ ko_ptr' = ko_ptr /\ ja_ptr' = ja_ptr + 1

\* C3, the consequence: a merged row pairs entries at most threshold ms apart.
C3_MergedWithin ==
    \A r \in Rows : IsMerged(aligned[r]) =>
        \A i \in 1..Len(ko_entries), j \in 1..Len(ja_entries) :
            (r \in KoRowsOf(i) /\ r \in JaRowsOf(j)) =>
                Abs(time_to_ms(ko_entries[i][1]) - time_to_ms(ja_entries[j][1])) <= threshold

\* C3: a pair merges if and only if it is at most threshold apart (at exactly
\* threshold it merges, at threshold + 1 the earlier entry goes alone), and so
\* every merged row pairs entries at most threshold apart.
C3_MergeIffWithinThreshold == [][C3_Step]_vars /\ []C3_MergedWithin

\* A pair exactly 500 ms apart was merged, and then a pair 501 ms apart was
\* not: the ko entry went alone, the ja entry after it.
C3_Witness ==
    /\ align_pc = "return"
    /\ threshold = 500
    /\ Len(ko_entries) = 2 /\ Len(ja_entries) = 2
    /\ Abs(time_to_ms(ko_entries[1][1]) - time_to_ms(ja_entries[1][1])) = 500
    /\ time_to_ms(ja_entries[2][1]) - time_to_ms(ko_entries[2][1]) = 501
    /\ Len(aligned) = 3
    /\ IsMerged(aligned[1])
    /\ aligned[2] = <<ko_entries[2][1], ko_entries[2][2], "">>
    /\ aligned[3] = <<ja_entries[2][1], "", ja_entries[2][2]>>

\* C4: with an empty ko track the result is the ja entries in order as rows
\* (time, '', text); with an empty ja track, the ko entries in order as rows
\* (time, text, ''); with both empty, the empty list.
C4_EmptyInput ==
    align_pc = "return" =>
        /\ ko_entries = <<>> =>
              aligned = [j \in 1..Len(ja_entries) |-> <<ja_entries[j][1], "", ja_entries[j][2]>>]
        /\ ja_entries = <<>> =>
              aligned = [i \in 1..Len(ko_entries) |-> <<ko_entries[i][1], ko_entries[i][2], "">>]
        /\ (ko_entries = <<>> /\ ja_entries = <<>>) => aligned = <<>>

\* A return from a call with no ko entry and two ja entries.
C4_Witness ==
    /\ align_pc = "return"
    /\ ko_entries = <<>>
    /\ Len(ja_entries) = 2
    /\ Len(aligned) = 2

\* C5: a row's timestamp is that of an entry whose text it carries: the ko
\* entry's in a merged row and in a solo ko row, the ja entry's in a solo ja row.
C5_RowTimestamp ==
    \A r \in Rows :
        LET row == aligned[r]
        IN  /\ row[2] # "" => \E i \in 1..Len(ko_entries) : ko_entries[i] = <<row[1], row[2]>>
            /\ (row[2] = "" /\ row[3] # "") =>
                  \E j \in 1..Len(ja_entries) : ja_entries[j] = <<row[1], row[3]>>
            /\ (row[2] = "" /\ row[3] = "") => FALSE

\* A merged row of two entries of different times, and a solo row of each track.
C5_Witness ==
    /\ align_pc = "return"
    /\ \E r \in Rows, j \in 1..Len(ja_entries) :
          /\ IsMerged(aligned[r])
          /\ r \in JaRowsOf(j)
          /\ ja_entries[j][1] # aligned[r][1]
    /\ \E r \in Rows : aligned[r][3] = ""
    /\ \E r \in Rows : aligned[r][2] = ""

\* The progress of the pass: the entries consumed, plus the loops left behind.
Phase == CASE align_pc = "shared" -> 0 [] align_pc = "drain_ko" -> 1
           [] align_pc = "drain_ja" -> 2 [] align_pc = "return" -> 3
Measure == ko_ptr + ja_ptr + Phase

\* The texts of the rows that carry a ko entry, top to bottom; likewise ja.
KoColumn == SelectSeq(aligned, LAMBDA row : row[2] # "")
JaColumn == SelectSeq(aligned, LAMBDA row : row[3] # "")

C10_Inv ==
    /\ ko_ptr \in 0..Len(ko_entries)
    /\ ja_ptr \in 0..Len(ja_entries)
    /\ Len(aligned) <= ko_ptr + ja_ptr
    /\ Len(aligned) <= Len(ko_entries) + Len(ja_entries)
    /\ align_pc = "return" \/ ENABLED NextAlign
    /\ align_pc = "return" =>
          /\ ko_ptr = Len(ko_entries)
          /\ ja_ptr = Len(ja_entries)
          /\ [r \in 1..Len(KoColumn) |-> <<KoColumn[r][1], KoColumn[r][2]>>] = ko_entries
          /\ [r \in 1..Len(JaColumn) |-> JaColumn[r][3]]
                = [j \in 1..Len(ja_entries) |-> ja_entries[j][2]]

C10_Step ==
    /\ ko_ptr' >= ko_ptr
    /\ ja_ptr' >= ja_ptr
    /\ Measure' > Measure
    /\ aligned' # aligned =>
          /\ Len(aligned') = Len(aligned) + 1
          /\ ko_ptr' + ja_ptr' > ko_ptr + ja_ptr

\* C10: one forward pass, sorted input or not: no cursor moves back or past
\* the end of its track, every iteration (each appends one row) advances a
\* cursor, so there are at most |A| + |B| of them; the pass is never stuck
\* before the return and every step brings it closer; at the return both
\* cursors are at the end, the rows carrying a ko entry are the ko track in its
\* order and the rows carrying a ja entry give the ja track's texts in its order.
C10_SinglePass == []C10_Inv /\ [][C10_Step]_vars

\* A return from a call on two tracks that both go back in time.
C10_Witness ==
    /\ align_pc = "return"
    /\ Len(ko_entries) = 3 /\ Len(ja_entries) = 2
    /\ ~NonDecreasing(ko_entries)
    /\ ~NonDecreasing(ja_entries)
    /\ \E r \in Rows : IsMerged(aligned[r])

-----------------------------------------------------------------------------
(* Properties of parse_srt (under SpecParse).                              *)

\* The text with every run of empty lines reduced to one empty line.
RECURSIVE Normalize(_)
Normalize(text) ==
    IF Len(text) < 3 THEN text
    ELSE IF text[1] = NL /\ text[2] = NL /\ text[3] = NL THEN Normalize(Tail(text))
    ELSE <<Head(text)>> \o Normalize(Tail(text))

\* The entries of the well-formed blocks among bs[i..], in order.
RECURSIVE EntriesFrom(_, _)
EntriesFrom(bs, i) ==
    IF i > Len(bs) THEN <<>>
    ELSE IF WellFormed(BlockLines(bs[i]))
         THEN <<EntryOf(BlockLines(bs[i]))>> \o EntriesFrom(bs, i + 1)
         ELSE EntriesFrom(bs, i + 1)

\* The blocks of a text whose blocks are separated by single empty lines.
BlocksOf(text) == SplitBlank(Strip(text))

\* C8: a file of well-formed blocks parses to the same track whether its
\* blocks are separated by one empty line or by more: one entry per block.
C8_BlankRunsEquivalent ==
    (/\ parse_pc = "return"
     /\ fs[file_path] # Unreadable
     /\ \A i \in 1..Len(BlocksOf(Normalize(fs[file_path]))) :
            WellFormed(BlockLines(BlocksOf(Normalize(fs[file_path]))[i])))
    => /\ parse_ret = EntriesFrom(BlocksOf(Normalize(fs[file_path])), 1)
       /\ Len(parse_ret) = Len(BlocksOf(Normalize(fs[file_path])))

\* A block is malformed with fewer than 3 lines or a second line that is no
\* timing line.
Malformed(lines) == Len(lines) < 3 \/ ~TimeMatch(lines[2])

GoodBlocksRead == SelectSeq(blocks, LAMBDA b : ~Malformed(BlockLines(b)))

\* C9, the step: a malformed block adds no entry, a well-formed block adds its
\* entry at the end, and in both cases the loop goes on to the next block.
C9_Step ==
    (parse_pc = "loop" /\ blk < Len(blocks)) =>
        LET lines == BlockLines(At(blocks, blk))
        IN  /\ parse_pc' = "loop"
            /\ blk' = blk + 1
            /\ messages' = messages
            /\ IF Malformed(lines) THEN entries' = entries
               ELSE entries' = Append(entries, <<StartOf(lines[2]), Join(lines, 3)>>)

\* C9, the result for a readable file: a list, never None, of one entry per
\* well-formed block, in file order; so n blocks of which one is malformed
\* give n - 1 entries, and no well-formed block gives the empty list.
C9_Result ==
    (parse_pc = "return" /\ fs[file_path] # Unreadable) =>
        /\ parse_ret # None
        /\ messages = <<>>
        /\ Len(parse_ret) = Len(GoodBlocksRead)
        /\ \A k \in 1..Len(GoodBlocksRead) :
              parse_ret[k] = <<StartOf(BlockLines(GoodBlocksRead[k])[2]),
                               Join(BlockLines(GoodBlocksRead[k]), 3)>>
        /\ (Len(GoodBlocksRead) = Len(blocks) - 1) => Len(parse_ret) = Len(blocks) - 1
        /\ (Len(GoodBlocksRead) = 0) => parse_ret = <<>>

\* C9: malformed blocks are skipped without aborting the parse.
C9_SkipMalformed == [][C9_Step]_vars /\ []C9_Result

\* Three blocks read, the middle one malformed, two entries returned.
C9_Witness ==
    /\ parse_pc = "return"
    /\ Len(blocks) = 3
    /\ ~Malformed(BlockLines(blocks[1]))
    /\ Malformed(BlockLines(blocks[2]))
    /\ ~Malformed(BlockLines(blocks[3]))
    /\ Len(parse_ret) = 2

-----------------------------------------------------------------------------
(* Properties of App.run (under SpecRun).                                  *)

\* Both files were parsed in this run (the fonts were registered before).
ParsedBoth == run_pc = "done" /\ ko_font_name # NoFont

ErrorBoxes == SelectSeq(messages, LAMBDA m : m.box = "error")

\* C6: when one track parses to no entry and the other to some, the run goes
\* on: the aligner runs and the document holds the other track's entries as
\* solo rows.
C6_EmptyTrackNonFatal ==
    /\ (ParsedBoth /\ ko_entries = <<>> /\ ~Falsy(ja_entries)) =>
          pdf = [j \in 1..Len(ja_entries) |-> <<ja_entries[j][1], "", ja_entries[j][2]>>]
    /\ (ParsedBoth /\ ja_entries = <<>> /\ ~Falsy(ko_entries)) =>
          pdf = [i \in 1..Len(ko_entries) |-> <<ko_entries[i][1], ko_entries[i][2], "">>]

\* C7: when a file cannot be read, or both tracks parse to no entry, the run
\* ends with no document written and exactly one error box shown.
C7_AbortOneMessage ==
    (/\ ParsedBoth
     /\ \/ ko_entries = None
        \/ ja_entries = None
        \/ (ko_entries = <<>> /\ ja_entries = <<>>))
    => /\ pdf = None
       /\ Len(ErrorBoxes) = 1

=============================================================================
